---- MODULE Spec2Model ----
(***************************************************************************)
(* A model of can_we_talk.py: the OBD-II query/response engine (CanBus),   *)
(* the PID decoder (OBD) and the sequential query flow of main.            *)
(*                                                                         *)
(* Time is the integer reading of time.time() in ticks, counted from the   *)
(* latest call of get_response or reading_sleep: the program looks only at *)
(* differences of clock readings taken within one such call.  The CAN      *)
(* interface (python-can) is the environment: a receive buffer rxq that    *)
(* other nodes                                                             *)
(* fill (Arrive), a blocking recv that hands out the oldest buffered frame *)
(* or None once its timeout has elapsed, and a send that succeeds or       *)
(* raises.                                                                 *)
(***************************************************************************)
EXTENDS Integers, Sequences, FiniteSets, TLC

VARIABLES
    pc,        \* position of the single thread of control
    stack,     \* return positions of the calls in progress
    clock,     \* time.time(), counted from the latest call of get_response or reading_sleep
    rxq,       \* frames buffered by the interface, oldest first
    sent,      \* frames handed to bus.send so far, in order
    k,         \* main: which of the three queries is in progress (1..3)
    pid,       \* the pid argument of query
    timeout,   \* get_response: its timeout argument
    wait,      \* get_response: the deadline
    recvStart, \* time at which the bus.recv call in progress was entered
    msg,       \* get_response: the frame bus.recv returned
    reply,     \* value returned by the last get_response or reading_sleep, until main has printed it
    endt,      \* reading_sleep: its local variable end
    out,       \* what main printed, in order
    err,       \* the exception that ended the program, "" when none
    rxlog,     \* history: the first two frames bus.recv handed to the running get_response
    nrecv,     \* history: bus.recv calls completed by the running get_response
    late,      \* history: a bus.recv of the running get_response completed past the deadline
    opens,     \* history: calls of can.interface.Bus so far
    sends,     \* history: bus.send calls of the query in progress or last made
    duration,  \* reading_sleep: its duration argument
    recvTimeout,\* the timeout argument of the last bus.recv call
    old,       \* history: how many of the oldest frames in rxq were buffered before the latest query was sent
    stale,     \* history: the frame bus.recv last handed to the running get_response was one of those
    stalled    \* history: time has passed in the running get_response outside a bus.recv that was waiting for a frame

vars == <<pc, stack, clock, rxq, sent, k, pid, timeout, wait, recvStart, msg,
          reply, endt, out, err, rxlog, nrecv, late, opens, sends, duration, recvTimeout, old, stale, stalled>>

(***************************************************************************)
(* Bounds of the model.                                                    *)
(***************************************************************************)
TicksPerSecond == 1   \* resolution of the clock
MaxQueue == 1         \* capacity of the receive buffer
MaxSent == 1          \* frames a client of the API sends
MaxRecvCount == 2     \* nrecv saturates here

(***************************************************************************)
(* Frames.                                                                 *)
(***************************************************************************)
Byte == 0..255

query_id == 2015      \* 0x7DF
reply_id == 2024      \* 0x7E8
other_id == 291       \* 0x123, traffic of some other node

Message(id, data, ext) == [arbitration_id |-> id, data |-> data, extended_id |-> ext]

\* Python's None, as a value that is no frame
None == Message(0 - 1, <<>>, FALSE)

\* an 8-byte payload whose bytes 3 and 4 (A and B) are a and b
Payload(a, b) == <<0, 0, 0, a, b, 0, 0, 0>>

ReplyPayloads == {Payload(20, 7), Payload(255, 255)}

ReplyFrames == {Message(reply_id, p, FALSE) : p \in ReplyPayloads}

OtherFrames == {Message(other_id, Payload(0, 0), FALSE)}

Frames == ReplyFrames \cup OtherFrames

DefaultTimeout == 1 * TicksPerSecond

MainPids == <<28, 47, 31>>   \* 0x1C, 0x2F, 0x1F

(***************************************************************************)
(* class OBD: unpacking of reply data.  Python indexes from 0, TLA+ from 1.*)
(***************************************************************************)
\* the dictionary, as the sequence of its values for the keys 1..33
obd_standards_dictionary ==
    << "OBD-II as defined by the [California Air Resources Board|CARB]",
       "OBD as defined by the [United States Environmental Protection Agency|EPA]",
       "OBD and OBD-II",
       "OBD-I",
       "Not OBD compliant",
       "EOBD (Europe)",
       "EOBD and OBD-II",
       "EOBD and OBD",
       "EOBD, OBD and OBD II",
       "JOBD (Japan)",
       "JOBD and OBD II",
       "JOBD and EOBD",
       "JOBD, EOBD, and OBD II",
       "Not OBD compliant",
       "Not OBD compliant",
       "Not OBD compliant",
       "Engine Manufacturer Diagnostics (EMD)",
       "Engine Manufacturer Diagnostics Enhanced (EMD+)",
       "Heavy Duty On-Board Diagnostics (Child/Partial) (HD OBD-C)",
       "Heavy Duty On-Board Diagnostics (HD OBD)",
       "World Wide Harmonized OBD (WWH OBD)",
       "Not OBD compliant",
       "Heavy Duty Euro OBD Stage I without NOx control (HD EOBD-I)",
       "Heavy Duty Euro OBD Stage I with NOx control (HD EOBD-I N)",
       "Heavy Duty Euro OBD Stage II without NOx control (HD EOBD-II)",
       "Heavy Duty Euro OBD Stage II with NOx control (HD EOBD-II N)",
       "Not OBD compliant",
       "Brazil OBD Phase 1 (OBDBr-1)",
       "Brazil OBD Phase 2 (OBDBr-2)",
       "Korean OBD (KOBD)",
       "India OBD I (IOBD I)",
       "India OBD II (IOBD II)",
       "Heavy Duty Euro OBD Stage VI (HD EOBD-IV)" >>

get_A(data) == data[4]    \* data[3], counted from 0

get_B(data) == data[5]    \* data[4]

get_C(data) == data[6]    \* data[5]

get_D(data) == data[7]    \* data[6]

\* what a failed dictionary lookup raises
KeyError == "KeyError"

\* faulty variant: the upper guard is missing
get_obd_standard_no_upper_guard(r) ==
    LET key == get_A(r.data) IN
    IF key < 1
    THEN "Not OBD compliant"
    ELSE IF key \in DOMAIN obd_standards_dictionary
         THEN obd_standards_dictionary[key]
         ELSE KeyError

get_obd_standard(r) ==
    LET key == get_A(r.data) IN
    IF (key < 1) \/ (key > 33)
    THEN "Not OBD compliant"
    ELSE IF key \in DOMAIN obd_standards_dictionary
         THEN obd_standards_dictionary[key]
         ELSE KeyError

(***************************************************************************)
(* Python floats: IEEE 754 doubles.  A double >= 0 is its exponent and its *)
(* significand, a sequence of MantissaBits bits with the leading 1 first:  *)
(* the value is the sum of man[i] * 2^(exp + 1 - i).                       *)
(***************************************************************************)
MantissaBits == 53

Pow2(n) == 2 ^ n

Zeros(n) == [i \in 1..n |-> 0]

DoubleZero == [exp |-> 0 - 1023, man |-> Zeros(MantissaBits)]

\* n / d scaled by 2^(-e), as a numerator and a denominator
Scaled(n, d, e) == IF e >= 0 THEN <<n, d * Pow2(e)>> ELSE <<n * Pow2(0 - e), d>>

\* the e with 2^e <= n / d < 2^(e + 1), for 1 <= n <= 25500 and 1 <= d <= 255
Exponent(n, d) ==
    CHOOSE e \in (0 - 8)..15 :
        LET s == Scaled(n, d, e) IN s[1] >= s[2] /\ s[1] < 2 * s[2]

\* long division, 13 binary digits at a time: the MantissaBits - 1 = 4 * 13
\* binary digits of r / D after the point, for 0 <= r < D < 2^17, as the
\* four 13-bit numbers q, and the remainder left after them
LongDiv(r, D) ==
    LET r1 == (r * Pow2(13)) % D
        r2 == (r1 * Pow2(13)) % D
        r3 == (r2 * Pow2(13)) % D
    IN [q |-> << (r * Pow2(13)) \div D, (r1 * Pow2(13)) \div D,
                 (r2 * Pow2(13)) \div D, (r3 * Pow2(13)) \div D >>,
        rem |-> (r3 * Pow2(13)) % D]

\* the significand 1.q[1]q[2]q[3]q[4] as its MantissaBits bits
Bits(q) ==
    [i \in 1..MantissaBits |->
        IF i = 1
        THEN 1
        ELSE (q[((i - 2) \div 13) + 1] \div Pow2(12 - ((i - 2) % 13))) % 2]

\* bits + 1 in the last place (bits is not all ones)
Increment(bits) ==
    LET p == CHOOSE i \in 1..Len(bits) :
                 bits[i] = 0 /\ \A j \in (i + 1)..Len(bits) : bits[j] = 1
    IN [i \in 1..Len(bits) |-> IF i < p THEN bits[i] ELSE IF i = p THEN 1 ELSE 0]

\* float(n) / float(d) for integers n >= 0, d > 0 that are doubles: the
\* quotient rounded to the nearest double, ties to even
FloatDiv(n, d) ==
    IF n = 0
    THEN DoubleZero
    ELSE LET e == Exponent(n, d)
             s == Scaled(n, d, e)
             l == LongDiv(s[1] - s[2], s[2])
             trunc == Bits(l.q)
             up == 2 * l.rem > s[2] \/ (2 * l.rem = s[2] /\ trunc[MantissaBits] = 1)
         IN IF ~up
            THEN [exp |-> e, man |-> trunc]
            ELSE IF \A i \in 1..MantissaBits : trunc[i] = 1
                 THEN [exp |-> e + 1, man |-> [i \in 1..MantissaBits |-> IF i = 1 THEN 1 ELSE 0]]
                 ELSE [exp |-> e, man |-> Increment(trunc)]

\* faulty variant: the division is an integer division
get_fuel_tank_level_floor(r) == FloatDiv((get_A(r.data) * 100) \div 255, 1)

\* a * 100.0 / 255.0 for every byte a: the product is an integer below 2^53
\* and exact, the quotient is rounded
FuelLevels == [a \in Byte |-> FloatDiv(a * 100, 255)]

\* A * 100.0 / 255.0
get_fuel_tank_level(r) == FuelLevels[get_A(r.data)]

\* faulty variant: A and B swapped
get_seconds_since_start_swapped(r) == (256 * get_B(r.data)) + get_A(r.data)

get_seconds_since_start(r) == (256 * get_A(r.data)) + get_B(r.data)

(***************************************************************************)
(* class CanBus: the pure parts.                                           *)
(***************************************************************************)
get_wait_time(now, t) == now + t

\* faulty variant: one filler byte short
query_frame_short(p) == <<2, 1, p, 85, 85, 85, 85>>

query_frame(p) == <<2, 1, p, 85, 85, 85, 85, 85>>

\* faulty variant: the arbitration ID is not compared
IsReplyAnyFrame(m) == m # None

\* if msg is not None: if msg.arbitration_id == self.reply_id

IsReply(m) == m # None /\ m.arbitration_id = reply_id

\* faulty variant: the deadline is looked at only when bus.recv returned None
DeadlinePassedOnSilence(now, w, m) == m = None /\ now > w

\* time.time() > wait, whatever msg is

DeadlinePassed(now, w, m) == now > w

(***************************************************************************)
(* Calls and returns.                                                      *)
(***************************************************************************)
Call(target, back) == pc' = target /\ stack' = <<back>> \o stack

Return == pc' = Head(stack) /\ stack' = Tail(stack)

Raise(e) == pc' = "raised" /\ err' = e /\ stack' = <<>>

InGetResponse == pc \in {"gr_enter", "gr_recv", "gr_block", "gr_match", "gr_deadline"}

InLoop == pc \in {"gr_recv", "gr_block", "gr_match", "gr_deadline"}

\* reading_sleep is running, in its loop test or in a get_response it called
InReadingSleep ==
    \/ pc = "rs_test"
    \/ InGetResponse /\ stack # <<>> /\ Head(stack) = "rs_test"

Min(a, b) == IF a < b THEN a ELSE b

\* the history of the last get_response is dropped when its caller moves on
Forget ==
    rxlog' = <<>> /\ nrecv' = 0 /\ late' = FALSE /\ stale' = FALSE /\ stalled' = FALSE

(***************************************************************************)
(* The environment: the clock and the CAN interface.                       *)
(***************************************************************************)
\* bus.recv is blocked: nothing is buffered and its timeout has not elapsed
Waiting == pc = "gr_block" /\ rxq = <<>> /\ clock < recvStart + recvTimeout

\* time passes, as long as a comparison with the clock that the call in
\* progress has still to make can change
Tick ==
    /\ pc \notin {"done", "raised"}
    /\ \/ InLoop /\ clock <= wait
       \/ Waiting
       \/ InReadingSleep /\ clock < endt
    /\ clock' = clock + 1
    /\ stalled' = (stalled \/ (InGetResponse /\ ~Waiting))
    /\ UNCHANGED <<pc, stack, rxq, sent, k, pid, timeout, wait, recvStart, msg,
                   reply, endt, out, err, rxlog, nrecv, late, opens, sends, duration,
                   recvTimeout, old, stale>>

\* a frame of another node reaches the open interface and is buffered
Arrive(f) ==
    /\ pc \notin {"main", "m_open", "done", "raised"}
    /\ Len(rxq) < MaxQueue
    /\ rxq' = Append(rxq, f)
    /\ UNCHANGED <<pc, stack, clock, sent, k, pid, timeout, wait, recvStart, msg,
                   reply, endt, out, err, rxlog, nrecv, late, opens, sends, duration,
                   recvTimeout, old, stale, stalled>>

(***************************************************************************)
(* CanBus.query                                                            *)
(***************************************************************************)
\* faulty variant: a send that raised is attempted once more
QuerySendRetries ==
    /\ pc = "q_send"
    /\ \/ /\ sent' = Append(sent, Message(query_id, query_frame(pid), FALSE))
          /\ old' = Len(rxq)
          /\ Return
          /\ UNCHANGED err
       \/ /\ IF sends = 0
             THEN UNCHANGED <<pc, stack, err>>
             ELSE Raise("send")
          /\ UNCHANGED <<sent, old>>
    /\ sends' = sends + 1
    /\ UNCHANGED <<clock, rxq, k, pid, timeout, wait, recvStart, msg, reply, endt,
                   out, rxlog, nrecv, late, opens, recvTimeout, duration, stale,
                   stalled>>

\* bus.send transmits the frame or raises
QuerySend ==
    /\ pc = "q_send"
    /\ \/ /\ sent' = Append(sent, Message(query_id, query_frame(pid), FALSE))
          /\ old' = Len(rxq)
          /\ Return
          /\ UNCHANGED err
       \/ /\ Raise("send")
          /\ UNCHANGED <<sent, old>>
    /\ sends' = sends + 1
    /\ UNCHANGED <<clock, rxq, k, pid, timeout, wait, recvStart, msg, reply, endt,
                   out, rxlog, nrecv, late, opens, duration, recvTimeout, stale,
                   stalled>>

(***************************************************************************)
(* CanBus.get_response                                                     *)
(***************************************************************************)
\* the call get_response(t), returning to back; time is counted from here,
\* the end of a reading_sleep in progress with it
GetResponseCall(t, back) ==
    /\ Call("gr_enter", back)
    /\ timeout' = t
    /\ msg' = None
    /\ rxlog' = <<>>
    /\ nrecv' = 0
    /\ late' = FALSE
    /\ stale' = FALSE
    /\ stalled' = FALSE
    /\ clock' = 0
    /\ endt' = IF back = "rs_test" THEN endt - clock ELSE 0
    /\ UNCHANGED <<rxq, sent, k, pid, wait, recvStart, reply, out, err, opens,
                   sends, duration, recvTimeout, old>>

\* return r: the caller gets r and the locals are gone
GrReturn(r) ==
    /\ reply' = r
    /\ Return
    /\ wait' = 0
    /\ recvStart' = 0
    /\ msg' = None

\* wait = self.get_wait_time(timeout)
GrEnter ==
    /\ pc = "gr_enter"
    /\ wait' = get_wait_time(clock, timeout)
    /\ pc' = "gr_recv"
    /\ UNCHANGED <<stack, clock, rxq, sent, k, pid, timeout, recvStart, msg, reply,
                   endt, out, err, rxlog, nrecv, late, opens, sends, duration,
                   recvTimeout, old, stale, stalled>>

\* faulty variant: bus.recv is given the time left until the deadline
GrRecvCallRemaining ==
    /\ pc = "gr_recv"
    /\ recvStart' = clock
    /\ recvTimeout' = IF wait > clock THEN wait - clock ELSE 0
    /\ pc' = "gr_block"
    /\ UNCHANGED <<stack, clock, rxq, sent, k, pid, timeout, wait, msg, reply, endt,
                   out, err, rxlog, nrecv, late, opens, sends, duration, old, stale,
                   stalled>>

\* self.bus.recv(timeout) is entered
GrRecvCall ==
    /\ pc = "gr_recv"
    /\ recvStart' = clock
    /\ recvTimeout' = timeout
    /\ pc' = "gr_block"
    /\ UNCHANGED <<stack, clock, rxq, sent, k, pid, timeout, wait, msg, reply, endt,
                   out, err, rxlog, nrecv, late, opens, sends, duration, old, stale,
                   stalled>>

\* self.bus.recv(timeout) returns the oldest buffered frame, or None once
\* the timeout it was given has elapsed with nothing buffered
GrRecvReturn ==
    /\ pc = "gr_block"
    /\ \/ /\ rxq # <<>>
          /\ msg' = Head(rxq)
          /\ rxq' = Tail(rxq)
          /\ rxlog' = IF Len(rxlog) < 2 THEN Append(rxlog, Head(rxq)) ELSE rxlog
          /\ old' = IF old > 0 THEN old - 1 ELSE 0
          /\ stale' = (old > 0)
       \/ /\ rxq = <<>>
          /\ clock >= recvStart + recvTimeout
          /\ msg' = None
          /\ stale' = FALSE
          /\ UNCHANGED <<rxq, rxlog, old>>
    /\ pc' = "gr_match"
    /\ nrecv' = Min(nrecv + 1, MaxRecvCount)
    /\ late' = (late \/ clock > wait)
    /\ UNCHANGED <<stack, clock, sent, k, pid, timeout, wait, recvStart, reply, endt,
                   out, err, opens, sends, duration, recvTimeout, stalled>>

\* faulty variant: the deadline is tested before the arbitration ID
GrMatchDeadlineFirst ==
    /\ pc = "gr_match"
    /\ IF DeadlinePassed(clock, wait, msg)
       THEN GrReturn(None)
       ELSE IF IsReply(msg)
            THEN GrReturn(msg)
            ELSE pc' = "gr_deadline" /\ UNCHANGED <<reply, stack, wait, recvStart, msg>>
    /\ UNCHANGED <<clock, rxq, sent, k, pid, timeout, endt, out, err, rxlog, nrecv, late,
                   opens, sends, duration, recvTimeout, old, stale, stalled>>

\* if msg is not None: if msg.arbitration_id == self.reply_id: return msg
GrMatch ==
    /\ pc = "gr_match"
    /\ IF IsReply(msg)
       THEN GrReturn(msg)
       ELSE pc' = "gr_deadline" /\ UNCHANGED <<reply, stack, wait, recvStart, msg>>
    /\ UNCHANGED <<clock, rxq, sent, k, pid, timeout, endt, out, err, rxlog, nrecv, late,
                   opens, sends, duration, recvTimeout, old, stale, stalled>>

\* faulty variant: no reply by the deadline raises
GrDeadlineRaises ==
    /\ pc = "gr_deadline"
    /\ IF DeadlinePassed(clock, wait, msg)
       THEN Raise("no reply") /\ UNCHANGED <<reply, wait, recvStart, msg>>
       ELSE pc' = "gr_recv" /\ UNCHANGED <<reply, stack, wait, recvStart, msg, err>>
    /\ UNCHANGED <<clock, rxq, sent, k, pid, timeout, endt, out, rxlog, nrecv, late, opens,
                   sends, duration, recvTimeout, old, stale, stalled>>

\* if time.time() > wait: return None
GrDeadline ==
    /\ pc = "gr_deadline"
    /\ IF DeadlinePassed(clock, wait, msg)
       THEN GrReturn(None)
       ELSE pc' = "gr_recv" /\ UNCHANGED <<reply, stack, wait, recvStart, msg>>
    /\ UNCHANGED <<clock, rxq, sent, k, pid, timeout, endt, out, err, rxlog, nrecv, late,
                   opens, sends, duration, recvTimeout, old, stale, stalled>>

GetResponse == GrEnter \/ GrRecvCall \/ GrRecvReturn \/ GrMatch \/ GrDeadline

(***************************************************************************)
(* CanBus.reading_sleep                                                    *)
(***************************************************************************)
\* faulty variant: the loop runs while time.time() <= end
RsTestInclusive ==
    /\ pc = "rs_test"
    /\ IF clock <= endt
       THEN GetResponseCall(DefaultTimeout, "rs_test")
       ELSE /\ Return
            /\ Forget
            /\ reply' = None
            /\ duration' = 0
            /\ UNCHANGED <<clock, rxq, sent, k, pid, timeout, wait, recvStart, msg,
                           endt, out, err, opens, sends, recvTimeout, old>>

\* while time.time() < end: self.get_response()
\* the value of get_response is dropped; past the loop reading_sleep returns
\* (None, as every function without a return statement)
RsTest ==
    /\ pc = "rs_test"
    /\ IF clock < endt
       THEN GetResponseCall(DefaultTimeout, "rs_test")
       ELSE /\ Return
            /\ Forget
            /\ reply' = None
            /\ duration' = 0
            /\ UNCHANGED <<clock, rxq, sent, k, pid, timeout, wait, recvStart, msg,
                           endt, out, err, opens, sends, recvTimeout, old>>

(***************************************************************************)
(* main                                                                    *)
(***************************************************************************)
\* if args['--version']: print the version and return
MainArgs ==
    /\ pc = "main"
    /\ \E version \in BOOLEAN : pc' = IF version THEN "done" ELSE "m_open"
    /\ UNCHANGED <<stack, clock, rxq, sent, k, pid, timeout, wait, recvStart, msg,
                   reply, endt, out, err, rxlog, nrecv, late, opens, sends, duration,
                   recvTimeout, old, stale, stalled>>

\* faulty variant: a failed can.interface.Bus is called once more
OpenRetries ==
    /\ pc = "m_open"
    /\ \/ pc' = "m_query" /\ k' = 1 /\ UNCHANGED <<err, stack>>
       \/ /\ IF opens = 0
             THEN UNCHANGED <<pc, stack, err>>
             ELSE Raise("connect")
          /\ UNCHANGED k
    /\ opens' = opens + 1
    /\ UNCHANGED <<clock, rxq, sent, pid, timeout, wait, recvStart, msg, reply, endt,
                   out, rxlog, nrecv, late, sends, recvTimeout, duration, old, stale,
                   stalled>>

\* bus = CanBus(...): can.interface.Bus opens the interface or __init__ raises
Open ==
    /\ pc = "m_open"
    /\ \/ pc' = "m_query" /\ k' = 1 /\ UNCHANGED <<err, stack>>
       \/ Raise("connect") /\ UNCHANGED k
    /\ opens' = opens + 1
    /\ UNCHANGED <<clock, rxq, sent, pid, timeout, wait, recvStart, msg, reply, endt,
                   out, rxlog, nrecv, late, sends, duration, recvTimeout, old, stale,
                   stalled>>

\* pid = ...; bus.query(pid)
MainQuery ==
    /\ pc = "m_query"
    /\ pid' = MainPids[k]
    /\ Call("q_send", "m_get")
    /\ sends' = 0
    /\ UNCHANGED <<clock, rxq, sent, k, timeout, wait, recvStart, msg, reply, endt,
                   out, err, rxlog, nrecv, late, opens, duration, recvTimeout, old,
                   stale, stalled>>

\* reply = bus.get_response()
MainGet ==
    /\ pc = "m_get"
    /\ GetResponseCall(DefaultTimeout, "m_print")

\* the value main unpacks from the reply to its k-th query
Unpack(i, r) ==
    CASE i = 1 -> [what |-> "standard", text |-> get_obd_standard(r)]
      [] i = 2 -> [what |-> "fuel", percent |-> get_fuel_tank_level(r)]
      [] i = 3 -> [what |-> "seconds", seconds |-> get_seconds_since_start(r)]

Raises(i, r) == i = 1 /\ get_obd_standard(r) = KeyError

\* faulty variant: a None reply sends the same query again
MainPrintRetries ==
    /\ pc = "m_print"
    /\ IF reply = None
       THEN pc' = "m_query" /\ UNCHANGED <<out, k, err, stack>>
       ELSE /\ out' = Append(out, Unpack(k, reply))
            /\ IF k < Len(MainPids)
               THEN pc' = "m_query" /\ k' = k + 1
               ELSE pc' = "done" /\ UNCHANGED k
            /\ UNCHANGED <<err, stack>>
    /\ Forget
    /\ reply' = None
    /\ UNCHANGED <<clock, rxq, sent, pid, timeout, wait, recvStart, msg, endt, opens,
                   sends, duration, recvTimeout, old>>

\* if reply is None: print('unable to read ...') else: print(the unpacked value)
\* main does not read reply again before the next get_response assigns it
MainPrint ==
    /\ pc = "m_print"
    /\ IF reply # None /\ Raises(k, reply)
       THEN Raise(KeyError) /\ UNCHANGED <<out, k>>
       ELSE /\ out' = Append(out, IF reply = None
                                  THEN [what |-> "unable"]
                                  ELSE Unpack(k, reply))
            /\ IF k < Len(MainPids)
               THEN pc' = "m_query" /\ k' = k + 1
               ELSE pc' = "done" /\ UNCHANGED k
            /\ UNCHANGED <<err, stack>>
    /\ Forget
    /\ reply' = None
    /\ UNCHANGED <<clock, rxq, sent, pid, timeout, wait, recvStart, msg, endt, opens,
                   sends, duration, recvTimeout, old>>

Main == MainArgs \/ Open \/ MainQuery \/ MainGet \/ MainPrint

(***************************************************************************)
(* The program main(docopt(__doc__)).                                      *)
(***************************************************************************)
Init ==
    /\ pc = "main"
    /\ stack = <<>>
    /\ clock = 0
    /\ rxq = <<>>
    /\ sent = <<>>
    /\ k = 1
    /\ pid = MainPids[1]
    /\ timeout = DefaultTimeout
    /\ wait = 0
    /\ recvStart = 0
    /\ msg = None
    /\ reply = None
    /\ endt = 0
    /\ out = <<>>
    /\ err = ""
    /\ rxlog = <<>>
    /\ nrecv = 0
    /\ late = FALSE
    /\ opens = 0
    /\ sends = 0
    /\ duration = 0
    /\ recvTimeout = 0
    /\ old = 0
    /\ stale = FALSE
    /\ stalled = FALSE

Program == Main \/ QuerySend \/ GetResponse

Next ==
    \/ Program
    \/ Tick
    \/ \E f \in Frames : Arrive(f)

Spec == Init /\ [][Next]_vars

\* the clock advances and the thread runs
LiveSpec == Spec /\ WF_vars(Tick) /\ WF_vars(Program)

(***************************************************************************)
(* A client of an open CanBus that calls get_response and reading_sleep in *)
(* any order.                                                              *)
(***************************************************************************)
Timeouts == {0, DefaultTimeout}

Durations == {0 - DefaultTimeout, 0, DefaultTimeout}

ApiQuery(p) ==
    /\ pc = "idle"
    /\ Len(sent) < MaxSent
    /\ pid' = p
    /\ Call("q_send", "idle")
    /\ sends' = 0
    /\ Forget
    /\ UNCHANGED <<clock, rxq, sent, k, timeout, wait, recvStart, msg, reply, endt,
                   out, err, opens, duration, recvTimeout, old>>

ApiGetResponse(t) ==
    /\ pc = "idle"
    /\ GetResponseCall(t, "idle")

\* reading_sleep(d): end = time.time() + duration
ApiReadingSleep(d) ==
    /\ pc = "idle"
    /\ duration' = d
    /\ clock' = 0
    /\ endt' = 0 + d
    /\ Call("rs_test", "idle")
    /\ Forget
    /\ UNCHANGED <<rxq, sent, k, pid, timeout, wait, recvStart, msg, reply,
                   out, err, opens, sends, recvTimeout, old>>

InitApi ==
    /\ pc = "idle"
    /\ stack = <<>>
    /\ clock = 0
    /\ rxq = <<>>
    /\ sent = <<>>
    /\ k = 1
    /\ pid = MainPids[1]
    /\ timeout = DefaultTimeout
    /\ wait = 0
    /\ recvStart = 0
    /\ msg = None
    /\ reply = None
    /\ endt = 0
    /\ out = <<>>
    /\ err = ""
    /\ rxlog = <<>>
    /\ nrecv = 0
    /\ late = FALSE
    /\ opens = 0
    /\ sends = 0
    /\ duration = 0
    /\ recvTimeout = 0
    /\ old = 0
    /\ stale = FALSE
    /\ stalled = FALSE

Engine == GetResponse \/ RsTest

NextApi ==
    \/ \E t \in Timeouts : ApiGetResponse(t)
    \/ \E d \in Durations : ApiReadingSleep(d)
    \/ Engine
    \/ Tick
    \/ \E f \in Frames : Arrive(f)

SpecApi == InitApi /\ [][NextApi]_vars

LiveApi == SpecApi /\ WF_vars(Tick) /\ WF_vars(Engine)

(***************************************************************************)
(* query for every pid.                                                    *)
(***************************************************************************)
NextQuery ==
    \/ \E p \in Byte : ApiQuery(p)
    \/ QuerySend

SpecQuery == InitApi /\ [][NextQuery]_vars

(***************************************************************************)
(* The decoder applied to every pair of data bytes A, B.                   *)
(***************************************************************************)
InitDecode ==
    /\ pc = "decode"
    /\ stack = <<>>
    /\ clock = 0
    /\ rxq = <<>>
    /\ sent = <<>>
    /\ k = 1
    /\ pid = MainPids[1]
    /\ timeout = DefaultTimeout
    /\ wait = 0
    /\ recvStart = 0
    /\ msg = None
    /\ reply \in {Message(reply_id, Payload(a, b), FALSE) : a \in Byte, b \in Byte}
    /\ endt = 0
    /\ out = <<>>
    /\ err = ""
    /\ rxlog = <<>>
    /\ nrecv = 0
    /\ late = FALSE
    /\ opens = 0
    /\ sends = 0
    /\ duration = 0
    /\ recvTimeout = 0
    /\ old = 0
    /\ stale = FALSE
    /\ stalled = FALSE

\* the i-th unpacking of main applied to reply
Decode(i) ==
    /\ pc = "decode"
    /\ k' = i
    /\ IF Raises(i, reply)
       THEN Raise(KeyError) /\ UNCHANGED out
       ELSE out' = <<Unpack(i, reply)>> /\ UNCHANGED <<pc, stack, err>>
    /\ UNCHANGED <<clock, rxq, sent, pid, timeout, wait, recvStart, msg, reply, endt,
                   rxlog, nrecv, late, opens, sends, duration, recvTimeout, old, stale,
                   stalled>>

NextDecode == \E i \in 1..3 : Decode(i)

SpecDecode == InitDecode /\ [][NextDecode]_vars

(***************************************************************************)
(* Properties.                                                             *)
(***************************************************************************)
\* a get_response has returned to its caller, which has not moved on yet
Returned == pc \in {"m_print", "idle", "rs_test"} /\ nrecv >= 1

\* C1: get_response hands its caller None or a frame it received whose
\* arbitration ID is 0x7E8, in every call of every sequence of calls: a frame
\* with another ID is never returned, by the call that received it or a later one.
C1_OnlyReplyIdReturned ==
    /\ reply # None => reply.arbitration_id = 2024
    /\ (Returned /\ reply # None) => rxlog # <<>>
    /\ (Returned /\ reply # None /\ Len(rxlog) = 1) => reply = rxlog[1]
    /\ (Returned /\ rxlog # <<>> /\ rxlog[1].arbitration_id = 2024)
           => (reply = rxlog[1] /\ Len(rxlog) = 1)

C1_Witness ==
    /\ pc = "idle"
    /\ nrecv = 2
    /\ Len(rxlog) = 2
    /\ rxlog[1].arbitration_id # 2024
    /\ reply = rxlog[2]
    /\ reply.arbitration_id = 2024

\* C2 as claimed: when the interface delivers a frame with another ID and has
\* a frame with ID 0x7E8 to deliver next, get_response returns that second frame.
C2_SecondFrameReturned ==
    [][(/\ pc = "gr_deadline"
        /\ pc' = Head(stack)
        /\ rxlog = <<msg>>
        /\ msg.arbitration_id # 2024
        /\ rxq # <<>>
        /\ Head(rxq).arbitration_id = 2024) => reply' = Head(rxq)]_vars

C2_AtReturn ==
    (Returned /\ rxlog # <<>> /\ rxlog[1].arbitration_id # 2024) =>
        /\ reply # rxlog[1]
        /\ (Len(rxlog) = 2 /\ rxlog[2].arbitration_id = 2024) => reply = rxlog[2]
        /\ Len(rxlog) = 1 => reply = None

\* C2 amended: when the interface delivers a frame with another ID followed
\* by a frame with ID 0x7E8, get_response never returns the first; it goes on
\* to receive and return the second if the clock read after the first is not
\* past the deadline, and returns None without receiving the second if it is.
C2_SecondFrameUnlessDeadline ==
    [][/\ (pc = "gr_deadline" /\ pc' # pc /\ msg.arbitration_id # 2024 /\ clock <= wait)
              => (pc' = "gr_recv" /\ rxq' = rxq)
       /\ (pc = "gr_deadline" /\ pc' # pc /\ msg.arbitration_id # 2024 /\ clock > wait)
              => (pc' = Head(stack) /\ reply' = None /\ rxq' = rxq)
       /\ (pc = "gr_block" /\ pc' # pc /\ rxq # <<>>) => msg' = Head(rxq)
       /\ (pc = "gr_match" /\ pc' # pc /\ msg.arbitration_id = 2024)
              => (pc' = Head(stack) /\ reply' = msg)
       /\ C2_AtReturn']_vars

C2_Witness ==
    /\ Returned
    /\ Len(rxlog) = 2
    /\ rxlog[1].arbitration_id # 2024
    /\ rxlog[2].arbitration_id = 2024
    /\ rxlog[2].data = Payload(20, 7)
    /\ reply = rxlog[2]

\* C3: a get_response all of whose bus.recv calls returned None returns None
\* to its caller, and no exception is raised.
C3_SilenceGivesNone ==
    (~InGetResponse /\ nrecv >= 1 /\ rxlog = <<>>) =>
        (reply = None /\ err = "" /\ pc # "raised")

C3_Witness ==
    /\ pc = "m_print"
    /\ nrecv >= 1
    /\ rxlog = <<>>
    /\ reply = None
    /\ rxq = <<>>

\* C4: while the clock advances, every get_response returns, whatever the
\* interface delivers and however often.
C4_GetResponseTerminates == InGetResponse ~> ~InGetResponse

\* a get_response that met nothing but frames with another ID has returned None
C4_Witness ==
    /\ Returned
    /\ nrecv = MaxRecvCount
    /\ Len(rxlog) = 2
    /\ rxlog[1].arbitration_id # 2024
    /\ rxlog[2].arbitration_id # 2024
    /\ rxq # <<>>
    /\ reply = None

\* C5: the deadline is the clock at entry plus timeout and does not change
\* during the call, and once a bus.recv has completed past it the call makes
\* no further bus.recv.
C5_LateReceiveAborts ==
    [][/\ (pc = "gr_enter" /\ pc' # pc) => wait' = clock + timeout
       /\ (InLoop /\ pc' \in {"gr_recv", "gr_block", "gr_match", "gr_deadline"})
              => wait' = wait
       /\ late' => pc' \notin {"gr_recv", "gr_block"}
       /\ (late /\ pc = "gr_deadline" /\ pc' # pc) => pc' = Head(stack)]_vars

C5_Witness ==
    /\ late
    /\ pc = "gr_deadline"
    /\ msg.arbitration_id # 2024
    /\ nrecv >= 2

\* C6: every frame handed to bus.send was built by query from its pid: standard
\* arbitration ID 0x7DF and the 8 bytes 02 01 pid 55 55 55 55 55, for every pid
\* in 0x00..0xFF.
C6_QueryFrameShape ==
    /\ \A i \in 1..Len(sent) :
          /\ sent[i].arbitration_id = 2015
          /\ sent[i].extended_id = FALSE
          /\ Len(sent[i].data) = 8
          /\ sent[i].data[3] \in 0..255
          /\ sent[i].data = <<2, 1, sent[i].data[3], 85, 85, 85, 85, 85>>
    /\ (pc \in {"idle", "m_get"} /\ sent # <<>>) => sent[Len(sent)].data[3] = pid

C6_Witness ==
    /\ pc = "idle"
    /\ sent # <<>>
    /\ sent[Len(sent)].data = <<2, 1, 255, 85, 85, 85, 85, 85>>

\* the three query frames of main, in the order of its code
MainQueries ==
    << Message(2015, <<2, 1, 28, 85, 85, 85, 85, 85>>, FALSE),
       Message(2015, <<2, 1, 47, 85, 85, 85, 85, 85>>, FALSE),
       Message(2015, <<2, 1, 31, 85, 85, 85, 85, 85>>, FALSE) >>

\* C7: main sends the queries for 0x1C, 0x2F, 0x1F in this order, each once;
\* a query is sent only when every earlier one has had its get_response
\* return and its line printed; a main that got past the version switch and
\* met no exception ends with all three sent, whatever the replies were.
C7_ThreeQueriesInTurn ==
    /\ Len(sent) <= 3
    /\ sent = SubSeq(MainQueries, 1, Len(sent))
    /\ pc \in {"m_query", "q_send"} => Len(sent) = Len(out)
    /\ (InGetResponse \/ pc \in {"m_get", "m_print"}) => Len(sent) = Len(out) + 1
    /\ pc = "done" => \/ Len(sent) = 3 /\ Len(out) = 3
                      \/ sent = <<>> /\ out = <<>> /\ rxq = <<>>

\* all three replies were None and all three queries went out
C7_Witness ==
    /\ pc = "done"
    /\ sent = MainQueries
    /\ Len(out) = 3
    /\ \A i \in 1..3 : out[i].what = "unable"

\* C8: with the clock advancing, main ends normally unless opening the bus
\* or a send raised, whatever bus.recv returns and for every payload.
C8_MainCompletes ==
    <>(pc = "done" \/ (pc = "raised" /\ err \in {"connect", "send"}))

\* main ended after unpacking three replies, the first with A = 255
C8_Witness ==
    /\ pc = "done"
    /\ Len(out) = 3
    /\ out[1].what = "standard"
    /\ out[1].text = "Not OBD compliant"
    /\ out[2].what = "fuel"
    /\ out[3].what = "seconds"
    /\ out[3].seconds = 65535

\* C9: get_obd_standard returns the table entry at A for 1 <= A <= 33 and
\* "Not OBD compliant" for every other A in 0..255; the table has the keys
\* 1..33, with "Not OBD compliant" at 5, 14, 15, 16, 22 and 27.
C9_ObdStandard ==
    /\ DOMAIN obd_standards_dictionary = 1..33
    /\ \A c \in {5, 14, 15, 16, 22, 27} : obd_standards_dictionary[c] = "Not OBD compliant"
    /\ k = 1 => err = ""
    /\ (k = 1 /\ out # <<>>) =>
          LET A == reply.data[4] IN
          /\ A \in 0..255
          /\ (1 <= A /\ A <= 33) => out[1].text = obd_standards_dictionary[A]
          /\ (A = 0 \/ (34 <= A /\ A <= 255)) => out[1].text = "Not OBD compliant"
          /\ reply.data = <<0, 0, 0, 0, 0, 0, 0, 0>> => out[1].text = "Not OBD compliant"

C9_Witness ==
    /\ k = 1
    /\ out # <<>>
    /\ reply.data[4] = 33
    /\ out[1].text = "Heavy Duty Euro OBD Stage VI (HD EOBD-IV)"

\* C10: get_seconds_since_start returns 256*A + B, a value in 0..65535 from
\* which A and B are recovered as quotient and remainder by 256 (so distinct
\* pairs give distinct values).
C10_SecondsSinceStart ==
    (k = 3 /\ out # <<>>) =>
        LET A == reply.data[4]
            B == reply.data[5]
            s == out[1].seconds
        IN /\ s = 256 * A + B
           /\ s \in 0..65535
           /\ s \div 256 = A
           /\ s % 256 = B
           /\ (A = 0 /\ B = 0) => s = 0
           /\ (A = 1 /\ B = 0) => s = 256
           /\ (A = 255 /\ B = 255) => s = 65535

C10_Witness ==
    /\ k = 3
    /\ out # <<>>
    /\ reply.data[4] = 255
    /\ reply.data[5] = 255
    /\ out[1].seconds = 65535

\* x < y and x <= y for doubles
DLess(x, y) ==
    \/ x.exp < y.exp
    \/ /\ x.exp = y.exp
       /\ \E i \in 1..MantissaBits :
             /\ x.man[i] < y.man[i]
             /\ \A j \in 1..(i - 1) : x.man[j] = y.man[j]

DLeq(x, y) == x = y \/ DLess(x, y)

\* the 13 bits of man from position from on, as a number
Chunk(man, from) ==
    LET b(j) == man[from + j] * Pow2(12 - j)
    IN b(0) + b(1) + b(2) + b(3) + b(4) + b(5) + b(6) + b(7) + b(8) + b(9) + b(10)
       + b(11) + b(12)

\* one step of the comparison of man with n / D, 13 bits further: D when the
\* bits so far are already a unit or more away
Step(prev, man, D, from) ==
    IF prev >= D \/ prev <= 0 - D
    THEN D
    ELSE prev * Pow2(13) - D * Chunk(man, from)

\* n * 2^52 - D * (man as a 53-bit number), or D or more when man is a unit
\* in the last place or more away from n / D: the distance between man and
\* n / D, for 1 <= n / D < 2, in units of the last place times D
Residual(man, n, D) ==
    Step(Step(Step(Step(n - D * man[1], man, D, 2), man, D, 15), man, D, 28), man, D, 41)

\* the double v is exactly n / d
IsExactly(v, n, d) ==
    IF n = 0
    THEN v = DoubleZero
    ELSE /\ v.exp \in (0 - 8)..15
         /\ LET s == Scaled(n, d, v.exp)
            IN Residual(v.man, s[1], s[2]) = 0

\* the double v is within half a unit in the last place of n / d
IsNearest(v, n, d) ==
    IF n = 0
    THEN v = DoubleZero
    ELSE /\ v.exp \in (0 - 8)..15
         /\ v.man[1] = 1
         /\ LET s == Scaled(n, d, v.exp)
                res == Residual(v.man, s[1], s[2])
            IN 2 * res <= s[2] /\ 2 * res >= 0 - s[2]

\* 100.0
Double100 == [exp |-> 6, man |-> [i \in 1..MantissaBits |-> IF i \in {1, 2, 5} THEN 1 ELSE 0]]

\* the reply of the state with its data byte A replaced by a
WithA(a) == [reply EXCEPT !.data[4] = a]

\* C11 as claimed: get_fuel_tank_level returns A*100/255 exactly, strictly
\* increasing in A, within 0..100, 0 for A = 0, 100 for A = 255 and 12800/255
\* for A = 128.
C11_FuelLevelExact ==
    (k = 2 /\ out # <<>>) =>
        LET A == reply.data[4]
            v == out[1].percent
        IN /\ IsExactly(v, A * 100, 255)
           /\ A < 255 => DLess(v, get_fuel_tank_level(WithA(A + 1)))
           /\ DLeq(DoubleZero, v) /\ DLeq(v, Double100)
           /\ A = 0 => v = DoubleZero
           /\ A = 255 => v = Double100
           /\ A = 128 => IsExactly(v, 12800, 255)

\* C11 amended: get_fuel_tank_level returns the double nearest to A*100/255,
\* strictly increasing in A, within 0..100, 0 for A = 0, exactly 100 for
\* A = 255; for A = 128 it is the double nearest to 12800/255, which lies
\* between 50.125 and 50.25.
C11_FuelLevelRounded ==
    (k = 2 /\ out # <<>>) =>
        LET A == reply.data[4]
            v == out[1].percent
        IN /\ IsNearest(v, A * 100, 255)
           /\ A < 255 => DLess(v, get_fuel_tank_level(WithA(A + 1)))
           /\ DLeq(DoubleZero, v) /\ DLeq(v, Double100)
           /\ A = 0 => v = DoubleZero
           /\ A = 255 => v = Double100
           /\ A = 128 => /\ IsNearest(v, 12800, 255)
                         /\ v.exp = 5
                         /\ SubSeq(v.man, 1, 9) = <<1, 1, 0, 0, 1, 0, 0, 0, 1>>

\* A = 128 gives 0x1.9191919191919p+5 = 50.19607843137255
C11_Witness ==
    /\ k = 2
    /\ out # <<>>
    /\ reply.data[4] = 128
    /\ out[1].percent.exp = 5
    /\ out[1].percent.man =
          <<1, 1,0,0,1, 0,0,0,1, 1,0,0,1, 0,0,0,1, 1,0,0,1, 0,0,0,1, 1,0,0,1,
            0,0,0,1, 1,0,0,1, 0,0,0,1, 1,0,0,1, 0,0,0,1, 1,0,0,1>>

\* C12: when can.interface.Bus fails, the construction of CanBus raises after
\* that one attempt, and main ends there: it has sent no frame, called no
\* bus.send and no bus.recv, and does nothing further.
C12_OpenFailureEndsMain ==
    /\ opens <= 1
    /\ err = "connect" =>
          /\ pc = "raised"
          /\ opens = 1
          /\ sent = <<>>
          /\ sends = 0
          /\ nrecv = 0
          /\ rxlog = <<>>
          /\ out = <<>>
          /\ ~ENABLED Program
    /\ opens = 0 => (pc \in {"main", "m_open", "done"} /\ sent = <<>>)

C12_Witness == err = "connect" /\ pc = "raised" /\ opens = 1

\* C13: a bus.send that raises ends query and the program with that exception:
\* every query call makes exactly one bus.send call, successful or not, and
\* after a failed one nothing more is sent and nothing is received.
C13_SendFailurePropagates ==
    /\ sends <= 1
    /\ pc = "q_send" => sends = 0
    /\ pc = "m_get" => (sends = 1 /\ Len(sent) = k)
    /\ err = "send" =>
          /\ pc = "raised"
          /\ sends = 1
          /\ Len(sent) = k - 1
          /\ nrecv = 0
          /\ rxlog = <<>>
          /\ ~ENABLED Program

C13_Witness == err = "send" /\ pc = "raised" /\ k = 2 /\ Len(sent) = 1 /\ sends = 1

\* C14: reading_sleep(duration) calls get_response again and again and drops
\* what it returns, a frame with ID 0x7E8 included, until the clock has reached
\* entry time + duration: it does not return earlier, it returns once that
\* time is reached, it returns no frame, and for duration <= 0 it makes no
\* bus.recv call at all.
C14_ReadingSleepSafe ==
    [][/\ (pc = "idle" /\ pc' = "rs_test") => endt' = clock' + duration'
       /\ (InReadingSleep /\ InReadingSleep') =>
              (endt' - clock' \in {endt - clock, endt - clock - 1} /\ duration' = duration)
       /\ (pc = "rs_test" /\ pc' = "idle") => (clock >= endt /\ reply' = None)
       /\ (pc = "rs_test" /\ pc' # pc) => pc' = IF clock < endt THEN "gr_enter" ELSE "idle"
       /\ (InReadingSleep /\ pc = "gr_match" /\ pc' # pc /\ msg.arbitration_id = 2024) =>
              (pc' = "rs_test" /\ InReadingSleep')
       /\ (InReadingSleep /\ duration <= 0) =>
              (pc = "rs_test" /\ pc' \in {"rs_test", "idle"} /\ nrecv = 0)
      ]_vars

C14_ReadingSleep == C14_ReadingSleepSafe /\ (InReadingSleep ~> pc = "idle")

C14_Witness ==
    /\ pc = "rs_test"
    /\ duration = DefaultTimeout
    /\ clock >= endt
    /\ nrecv >= 1
    /\ reply.arbitration_id = 2024

\* C15: within one call of get_response the timeout argument does not change
\* and every bus.recv call is given that same value, not the time left until
\* the deadline: a bus.recv that finds nothing returns None only when the full
\* timeout has passed since it was entered.
C15_RecvGetsOriginalTimeout ==
    [][/\ (InGetResponse /\ InGetResponse') => timeout' = timeout
       /\ (pc = "gr_enter" /\ pc' # pc) => wait' = clock + timeout
       /\ pc' = "gr_block" => recvTimeout' = timeout'
       /\ (pc = "gr_block" /\ pc' = "gr_match" /\ msg' = None) =>
              clock >= recvStart + timeout
      ]_vars

\* a second bus.recv is entered with no time left until the deadline and is
\* given the whole timeout
C15_Witness ==
    /\ pc = "gr_block"
    /\ nrecv >= 1
    /\ timeout = DefaultTimeout
    /\ recvStart >= wait
    /\ recvTimeout = DefaultTimeout

\* C16: in main the reply that get_response returns for the k-th query, and
\* that main decodes with the formula of the k-th PID, is a frame the vehicle
\* sent in answer to the k-th query, never an answer to an earlier query that
\* arrived late: it is no frame that was buffered before the k-th query was sent.
C16_ReplyAnswersItsQuery ==
    (pc = "m_print" /\ reply # None) => ~stale

\* the first query timed out, and a frame with the reply ID that was buffered
\* before the second query was sent is about to be decoded as the fuel level
C16_StaleReplyDecoded ==
    /\ pc = "m_print"
    /\ k = 2
    /\ out[1].what = "unable"
    /\ reply # None
    /\ stale

\* C17 as claimed: but for the first, no bus.recv is entered with the clock
\* past the deadline, and get_response(timeout) has returned no later than
\* 2 * timeout after it was entered, whatever frames arrive.
C17_ReturnsWithinTwoTimeouts ==
    /\ (pc = "gr_block" /\ nrecv >= 1) => recvStart <= wait
    /\ InLoop => clock <= 2 * timeout

\* C17 amended: every bus.recv but the first is entered after a deadline check
\* that found the clock not past the deadline; when no time passes outside
\* the bus.recv calls that wait for a frame, none but the first is entered
\* with the clock past the deadline and get_response(timeout) returns no later
\* than 2 * timeout after it was entered, whatever frames arrive.
C17_OverrunBoundedByOneReceive ==
    /\ [][(pc = "gr_deadline" /\ pc' = "gr_recv") => clock <= wait]_vars
    /\ [](~stalled => C17_ReturnsWithinTwoTimeouts)

\* a frame with another ID used up the time to the deadline, the second
\* bus.recv used its whole timeout, and None is returned at 2 * timeout
C17_Witness ==
    /\ pc = "idle"
    /\ ~stalled
    /\ timeout = DefaultTimeout
    /\ nrecv >= 2
    /\ rxlog # <<>>
    /\ reply = None
    /\ clock = 2 * timeout

\* the frame bus.recv handed out carries the reply ID 0x7E8
HasReplyId == msg # None /\ msg.arbitration_id = reply_id

\* C18: get_response does not return before a bus.recv has returned, also
\* when the timeout is 0 or the deadline has passed before the first bus.recv;
\* the ID is compared before the deadline, so that a frame with ID 0x7E8
\* handed out by bus.recv is returned whatever the clock reads and never
\* reaches the deadline test; None is returned only from the deadline test,
\* after a bus.recv that handed out no frame with ID 0x7E8 and with the clock
\* strictly greater than the deadline.
C18_MatchBeforeDeadline ==
    /\ [](pc = "gr_deadline" => ~HasReplyId)
    /\ [][/\ (InGetResponse /\ ~InGetResponse') => nrecv >= 1
          /\ (pc = "gr_match" /\ pc' # pc /\ HasReplyId) =>
                 (reply' = msg /\ pc' = Head(stack))
          /\ (InGetResponse /\ ~InGetResponse' /\ reply' = None) =>
                 (pc = "gr_deadline" /\ clock > wait /\ ~HasReplyId /\ nrecv >= 1)]_vars

\* get_response(0) whose only bus.recv returned with the deadline passed has
\* returned the frame with ID 0x7E8 that this bus.recv handed out
C18_Witness ==
    /\ pc = "idle"
    /\ timeout = 0
    /\ nrecv = 1
    /\ late
    /\ reply # None
    /\ reply.arbitration_id = reply_id

====
